---- MODULE Spec2Model ----
(***************************************************************************)
(* Order-book analytics of torn-market-analyzer (src/tma/market_enrichment *)
(* .py): wide_to_long -> enrich_all_items -> build_summary_from_enriched.  *)
(*                                                                         *)
(* Numbers.  Every price-valued quantity is an integer number of "fine     *)
(* units": one currency unit is Unit fine units, and every price of an     *)
(* input slot is a multiple of 4 fine units (half a currency unit), so     *)
(* that numpy's linearly interpolated quartiles (multiples of 1/4 of a     *)
(* price difference) and math.floor stay exact integer arithmetic.         *)
(* Ratios (cum_qty_pct, level_share, robust_z) are kept as pairs           *)
(* <<numerator, denominator>> and compared by cross-multiplication.        *)
(* A DataFrame is a sequence of records (its rows, in order); a NaN/None   *)
(* cell of the wide table is the empty tuple <<>>, a number v is <<v>>.    *)
(* The columns item_name, item_type, average_price and my_quantity are     *)
(* copied through every stage unread and are left out of the rows.         *)
(*                                                                         *)
(* The specifications share the operators: Spec runs the pipeline on       *)
(* two-item tables whose slots may be unfilled, zero or positive; SpecBook *)
(* runs it on the table of one item holding a market feed (listings        *)
(* ascending by price, then unfilled slots); SpecSuggest and SpecBulk call *)
(* compute_price_suggestions_for_item on one item's frame, the first with  *)
(* any subset of a short frame's rows flagged, the second on frames around *)
(* the feed limit of 100 listings; SpecBucket interleaves the threads      *)
(* calling TokenBucket.take with the clock, and SpecBucketFair does so for *)
(* a bounded number of calls, fairly scheduled, while time passes without  *)
(* end; SpecFetch is one call of                                           *)
(* fetch_100 against a server answering anything, and SpecFetchFair adds   *)
(* that the calling thread keeps running.                                  *)
(***************************************************************************)
EXTENDS Integers, Sequences, FiniteSets, TLC

\* the pipeline: the wide table, the frames of the stages, the stage reached
VARIABLES table, long_df, enriched, summary, pc, exc

\* the TokenBucket (balance, time of the last refill, lock holder), the
\* clock, and each calling thread's position in take, its argument and its
\* reading of the clock; grants is the record of the calls that returned
\* (caller, n, the caller's clock reading, the time of the return, the lock
\* holder and the balance before and after the decrement)
VARIABLES tokens, last, clock, lock, tpc, req, tnow, grants

\* one call of fetch_100: its position, the round and the mode of the loops,
\* the backoff, what the last attempt handed back, the numbers of calls of
\* attempt_call, of bucket.take and of session.get, the sleeps made, the
\* attempts made and how each was handled, and the record returned
VARIABLES fpc, round, mode, backoff, outcome, calls, takes, requests, sleeps, attempts, result

market_vars == <<table, long_df, enriched, summary, pc, exc>>

fetch_vars ==
    <<fpc, round, mode, backoff, outcome, calls, takes, requests, sleeps, attempts, result>>

bucket_vars == <<tokens, last, clock, lock, tpc, req, tnow, grants>>

vars == <<market_vars, bucket_vars, fetch_vars>>

\* ------------------------------------------------------------------ bounds
\* number of price_i/amount_i slot pairs of a row in the two-item tables
TableSlots == 2
\* number of slot pairs of the row in the single-item book tables
MaxSlots == 4
\* number of rows of the frame handed directly to the suggestion engine
MaxRows == 3

\* ticks the clock can advance
MaxClock == 3

\* the calls of take the threads make in all, where their number is bounded
MaxCalls == 3

\* one currency unit, in fine units (4 quartile steps x 2 half-units)
Unit == 4 * 2

Cur(x) == x * Unit

\* ------------------------------------------------------------- constants
FAST_SELL_UNITS_THRESHOLD == 100
FAST_SELL_LISTINGS_THRESHOLD == 10
EXCLUSIVE_TOTAL_UNITS_THRESHOLD == 200
\* 0.50, as a fraction <<1, 2>>
EXCLUSIVE_DOMINANCE_SHARE == <<1, 2>>
EXCLUSIVE_HIGH_FACTOR == 10
\* defaults of mark_suspected_anchors_for_item
z_threshold == 5
\* 0.02, in hundredths
front_depth_pct == 2
back_depth_pct == 2
max_level_units_for_anchor == 50
\* third cheapest clean listing
exclusive_fast_index == 3
\* float("nan"): a value no price fraction can take
NaN == -1

\* ---------------------------------------------------------------- helpers
Abs(x) == IF x < 0 THEN -x ELSE x

Min2(a, b) == IF a <= b THEN a ELSE b

Max2(a, b) == IF a >= b THEN a ELSE b

\* pd.isna of a wide-table cell
isna(cell) == cell = <<>>

RECURSIVE SumSeq(_)
SumSeq(s) ==
    IF s = <<>> THEN 0
    ELSE IF Len(s) = 1 THEN s[1]
    ELSE LET mid == Len(s) \div 2
         IN  SumSeq(SubSeq(s, 1, mid)) + SumSeq(SubSeq(s, mid + 1, Len(s)))

\* np.cumsum
cumsum(s) == [i \in 1..Len(s) |-> SumSeq(SubSeq(s, 1, i))]

Prices(df) == [i \in 1..Len(df) |-> df[i].price]

Quantities(df) == [i \in 1..Len(df) |-> df[i].quantity]

RECURSIVE SortByKey(_)
\* ascending sort of records by their field key, ties keep their order
\* (numpy sorts fewer than 17 elements by insertion, which is stable; in the
\* longer frames no two prices are equal, and a weighted quantile reads the
\* same value whatever the order of equal deviations)
SortByKey(s) ==
    IF Len(s) <= 1 THEN s
    ELSE LET pivot == s[(Len(s) + 1) \div 2].key
         IN  SortByKey(SelectSeq(s, LAMBDA r : r.key < pivot))
             \o SelectSeq(s, LAMBDA r : r.key = pivot)
             \o SortByKey(SelectSeq(s, LAMBDA r : r.key > pivot))

\* np.sort(values)
sort_values(values) ==
    LET sorted == SortByKey([i \in 1..Len(values) |-> [key |-> values[i]]])
    IN  [i \in 1..Len(sorted) |-> sorted[i].key]

\* df.sort_values("price")
sort_by_price(df) ==
    LET sorted == SortByKey([i \in 1..Len(df) |-> [key |-> df[i].price, row |-> df[i]]])
    IN  [i \in 1..Len(sorted) |-> sorted[i].row]

\* fractions <<n, d>> with d > 0
FracLT(a, b) == a[1] * b[2] < b[1] * a[2]

FracGE(a, b) == ~FracLT(a, b)

FracGT(a, b) == FracLT(b, a)

\* s[mask][0]: the element of s at the first index where mask is true
FirstWhere(s, mask) ==
    s[CHOOSE i \in 1..Len(s) : mask[i] /\ \A j \in 1..(i - 1) : ~mask[j]]

SeqMin(s) == CHOOSE x \in {s[i] : i \in 1..Len(s)} : \A i \in 1..Len(s) : x <= s[i]

SeqMax(s) == CHOOSE x \in {s[i] : i \in 1..Len(s)} : \A i \in 1..Len(s) : x >= s[i]

\* values[order], weights[order] for order = np.argsort(values)
SortedPairs(values, weights) ==
    SortByKey([i \in 1..Len(values) |-> [key |-> values[i], v |-> values[i], w |-> weights[i]]])

\* ------------------------------------------- weighted median / quantiles
weighted_median(values, weights) ==
    LET vw == SortedPairs(values, weights)
        cum_w == cumsum([i \in 1..Len(vw) |-> vw[i].w])
        total == SumSeq(weights)
    IN  FirstWhere(vw, [i \in 1..Len(vw) |-> 2 * cum_w[i] >= total]).v

\* weighted_quantile that asks for strictly more than the target quantity
weighted_quantile_strict(values, weights, q) ==
    IF Len(values) = 0 THEN NaN
    ELSE IF q[1] <= 0 THEN SeqMin(values)
    ELSE IF q[1] >= q[2] THEN SeqMax(values)
    ELSE LET vw == SortedPairs(values, weights)
             cum_w == cumsum([i \in 1..Len(vw) |-> vw[i].w])
             total == SumSeq(weights)
         IN  IF \E i \in 1..Len(vw) : cum_w[i] * q[2] > q[1] * total
             THEN FirstWhere(vw, [i \in 1..Len(vw) |-> cum_w[i] * q[2] > q[1] * total]).v
             ELSE vw[Len(vw)].v

\* q is a fraction <<n, d>>
weighted_quantile(values, weights, q) ==
    IF Len(values) = 0 THEN NaN
    ELSE IF q[1] <= 0 THEN SeqMin(values)
    ELSE IF q[1] >= q[2] THEN SeqMax(values)
    ELSE LET vw == SortedPairs(values, weights)
             cum_w == cumsum([i \in 1..Len(vw) |-> vw[i].w])
             total == SumSeq(weights)
         IN  FirstWhere(vw, [i \in 1..Len(vw) |-> cum_w[i] * q[2] >= q[1] * total]).v

\* np_quantile that interpolates down from the upper neighbour
np_quantile_from_above(values, q) ==
    LET a == sort_values(values)
        h == q[1] * (Len(a) - 1)
        i == h \div q[2]
        g == h % q[2]
    IN  IF g = 0 THEN a[i + 1]
        ELSE a[i + 2] - ((a[i + 2] - a[i + 1]) * g) \div q[2]

\* np.quantile(values, q), numpy's default linear interpolation: position
\* q * (n - 1) of the sorted values, interpolated between its neighbours
np_quantile(values, q) ==
    LET a == sort_values(values)
        h == q[1] * (Len(a) - 1)
        i == h \div q[2]
        g == h % q[2]
    IN  IF g = 0 THEN a[i + 1]
        ELSE a[i + 1] + ((a[i + 2] - a[i + 1]) * g) \div q[2]

\* np.median(values)
np_median(values) == np_quantile(values, <<1, 2>>)

\* the lower middle element of the values themselves, the repeat counts
\* left out
median_ignoring_reps(values, reps) == sort_values(values)[(Len(values) + 1) \div 2]

\* the median of the expansion taken as its lower middle element
median_of_repeat_lower(values, reps) == weighted_median(values, reps)

\* np.median(np.repeat(values, reps)): the middle element of the sorted
\* expansion (the mean of the two middle ones when their number is even),
\* read off the cumulative repeat counts instead of the expanded array
median_of_repeat(values, reps) ==
    LET vw == SortedPairs(values, reps)
        cum_w == cumsum([i \in 1..Len(vw) |-> vw[i].w])
        n == SumSeq(reps)
        at(k) == FirstWhere(vw, [i \in 1..Len(vw) |-> cum_w[i] >= k]).v
    IN  IF n % 2 = 1 THEN at((n + 1) \div 2)
        ELSE (at(n \div 2) + at(n \div 2 + 1)) \div 2

weighted_price_quantile_from_df(df, q) ==
    IF df = <<>> THEN NaN
    ELSE LET df_sorted == sort_by_price(df)
         IN  weighted_quantile(Prices(df_sorted), Quantities(df_sorted), q)

unweighted_price_quantile_from_df(df, q) ==
    IF df = <<>> THEN NaN ELSE np_quantile(Prices(df), q)

\* ------------------------------------------------------- per-item stages
add_price_stats_for_item(df_item) ==
    LET prices == Prices(df_item)
        qty == Quantities(df_item)
        weighted == SumSeq(qty) > 0
        median == IF weighted THEN weighted_median(prices, qty) ELSE np_median(prices)
        q1 == IF weighted THEN weighted_quantile(prices, qty, <<1, 4>>)
              ELSE np_quantile(prices, <<1, 4>>)
        q3 == IF weighted THEN weighted_quantile(prices, qty, <<3, 4>>)
              ELSE np_quantile(prices, <<3, 4>>)
        absdev == [i \in 1..Len(prices) |-> Abs(prices[i] - median)]
        \* qty.astype(int).clip(min=1)
        reps == [i \in 1..Len(qty) |-> Max2(qty[i], 1)]
        mad == IF weighted THEN median_of_repeat(absdev, reps) ELSE np_median(absdev)
    IN  [i \in 1..Len(df_item) |->
            df_item[i] @@
            [price_median |-> median, price_q1 |-> q1, price_q3 |-> q3,
             price_iqr |-> q3 - q1, price_mad |-> mad,
             \* 0.6745 * (price - median) / mad, with 0.6745 = 1349 / 2000
             robust_z |-> IF mad > 0
                          THEN <<1349 * (df_item[i].price - median), 2000 * mad>>
                          ELSE <<0, 1>>,
             \* robust_z.abs() > 3.0
             is_extreme_price |-> IF mad > 0
                                  THEN 1349 * Abs(df_item[i].price - median) > 3 * 2000 * mad
                                  ELSE FALSE]]

add_depth_features_for_item(df_item) ==
    LET sorted == sort_by_price(df_item)
        cum == cumsum(Quantities(sorted))
        total_qty == SumSeq(Quantities(sorted))
    IN  [i \in 1..Len(sorted) |->
            sorted[i] @@
            [cum_qty |-> cum[i],
             cum_qty_pct |-> IF total_qty > 0 THEN <<cum[i], total_qty>> ELSE <<0, 1>>]]

\* groupby("price")["quantity"].sum() at one price
level_qty(df, price) ==
    SumSeq(Quantities(SelectSeq(df, LAMBDA r : r.price = price)))

\* max over the price levels of level_qty / total_qty, as a fraction
max_level_share(df) ==
    LET total_qty == SumSeq(Quantities(df))
    IN  IF total_qty > 0 /\ df # <<>>
        THEN <<SeqMax([i \in 1..Len(df) |-> level_qty(df, df[i].price)]), total_qty>>
        ELSE <<0, 1>>

\* the regime test shared by the anchor detector and the suggestion engine
exclusive_mode(total_qty, max_share) ==
    \/ total_qty <= EXCLUSIVE_TOTAL_UNITS_THRESHOLD
    \/ FracGE(max_share, EXCLUSIVE_DOMINANCE_SHARE)

shallow_front(r) == FracLT(r.cum_qty_pct, <<front_depth_pct, 100>>)

shallow_back(r) == FracGT(r.cum_qty_pct, <<100 - back_depth_pct, 100>>)

\* the exclusive rule asking only for a price at or above the median
exclusive_anchor_rule_from_median(r, median_price) ==
    /\ r.price >= median_price
    /\ (shallow_front(r) \/ shallow_back(r) \/ r.quantity <= max_level_units_for_anchor)

\* the exclusive rule with the factor on the wrong side of the comparison
exclusive_anchor_rule_swapped(r, median_price) ==
    /\ r.price * EXCLUSIVE_HIGH_FACTOR > median_price
    /\ (shallow_front(r) \/ shallow_back(r) \/ r.quantity <= max_level_units_for_anchor)

exclusive_anchor_rule(r, median_price) ==
    /\ r.price > median_price * EXCLUSIVE_HIGH_FACTOR
    /\ (shallow_front(r) \/ shallow_back(r) \/ r.quantity <= max_level_units_for_anchor)

\* the Normal rule with quantity <= 50 in place of quantity < 50
normal_anchor_rule_le(r) ==
    /\ Abs(r.robust_z[1]) > z_threshold * r.robust_z[2]
    /\ (shallow_front(r) \/ shallow_back(r))
    /\ r.quantity <= max_level_units_for_anchor

normal_anchor_rule(r) ==
    /\ Abs(r.robust_z[1]) > z_threshold * r.robust_z[2]
    /\ (shallow_front(r) \/ shallow_back(r))
    /\ r.quantity < max_level_units_for_anchor

mark_suspected_anchors_for_item(df_item) ==
    LET total_qty == SumSeq(Quantities(df_item))
        merged == [i \in 1..Len(df_item) |->
                      df_item[i] @@
                      [level_share |-> IF total_qty > 0
                                       THEN <<level_qty(df_item, df_item[i].price), total_qty>>
                                       ELSE <<0, 1>>]]
        max_share == IF Len(merged) > 0
                     THEN CHOOSE s \in {merged[i].level_share : i \in 1..Len(merged)} :
                              \A i \in 1..Len(merged) : FracGE(s, merged[i].level_share)
                     ELSE <<0, 1>>
        median_price == merged[1].price_median
        exclusive == exclusive_mode(total_qty, max_share)
    IN  [i \in 1..Len(merged) |->
            merged[i] @@
            [is_suspected_anchor |->
                IF exclusive /\ median_price > 0
                THEN exclusive_anchor_rule(merged[i], median_price)
                ELSE normal_anchor_rule(merged[i])]]

enrich_item_orders(df_item) ==
    mark_suspected_anchors_for_item(
        add_depth_features_for_item(add_price_stats_for_item(df_item)))

\* ------------------------------------------------------ price suggestions
\* math.floor(x) of a price in fine units
floor(x) == (x \div Unit) * Unit

\* df_item["item_id"].iloc[0] of an empty frame raises IndexError
raises_IndexError(df_item) == df_item = <<>>

\* clean_set that removes nothing
clean_set_keep_all(df_item) == df_item

\* clean_set without the fallback to the unfiltered book
clean_set_no_fallback(df_item) == SelectSeq(df_item, LAMBDA r : ~r.is_suspected_anchor)

\* the rows priced against: the rows not flagged, or every row when that
\* would leave none
clean_set(df_item) ==
    LET df_clean == SelectSeq(df_item, LAMBDA r : ~r.is_suspected_anchor)
    IN  IF df_clean = <<>> THEN df_item ELSE df_clean

\* fair / q1 / q3 of the clean rows under the regime of the clean rows
clean_quantile(df_clean, exclusive, q) ==
    IF exclusive THEN unweighted_price_quantile_from_df(df_clean, q)
    ELSE weighted_price_quantile_from_df(df_clean, q)

\* the raw fast-sell level (before the -1 tweak)
\* the unit-style test with 3.0 units per listing in place of 2.0
unit_style_le_3(df_clean, exclusive) ==
    ~exclusive /\ SumSeq(Quantities(df_clean)) <= 3 * Len(df_clean)

\* the unit-style branch is taken: not exclusive_mode, and
\* avg_qty_per_listing = total_qty_clean / total_listings_clean <= 2.0
unit_style(df_clean, exclusive) ==
    ~exclusive /\ SumSeq(Quantities(df_clean)) <= 2 * Len(df_clean)

\* the raw reference without the unit-style branch
fast_sell_raw_no_unit_style(df_clean, exclusive) ==
    LET df_clean_sorted == sort_by_price(df_clean)
        cum_qty_clean == cumsum(Quantities(df_clean_sorted))
        n == Len(df_clean_sorted)
        target_units == Min2(FAST_SELL_UNITS_THRESHOLD, SumSeq(Quantities(df_clean)))
    IN  IF exclusive
        THEN df_clean_sorted[Min2(exclusive_fast_index - 1, n - 1) + 1].price
        ELSE FirstWhere(df_clean_sorted, [i \in 1..n |-> cum_qty_clean[i] >= target_units]).price

fast_sell_raw(df_clean, exclusive) ==
    LET total_qty_clean == SumSeq(Quantities(df_clean))
        total_listings_clean == Len(df_clean)
        df_clean_sorted == sort_by_price(df_clean)
        cum_qty_clean == cumsum(Quantities(df_clean_sorted))
        n == Len(df_clean_sorted)
        target_units == Min2(FAST_SELL_UNITS_THRESHOLD, total_qty_clean)
    IN  IF exclusive
        THEN df_clean_sorted[Min2(exclusive_fast_index - 1, n - 1) + 1].price
        ELSE IF unit_style(df_clean, exclusive)
        THEN df_clean_sorted[Min2(FAST_SELL_LISTINGS_THRESHOLD, n)].price
        ELSE IF \E i \in 1..n : cum_qty_clean[i] >= target_units
        THEN FirstWhere(df_clean_sorted, [i \in 1..n |-> cum_qty_clean[i] >= target_units]).price
        ELSE df_clean_sorted[n].price

\* the tweak without math.floor
fast_sell_tweak_no_floor(raw) == Max2(raw - Unit, 0)

\* max(math.floor(fast_sell_raw) - 1, 0.0); every price of the model is finite
fast_sell_tweak(raw) == Max2(floor(raw) - Unit, 0)

\* the record of one item, given its clean rows and their regime
price_suggestions(df_item, df_clean, exclusive) ==
    LET item_id == df_item[1].item_id
        num_listings == Len(df_item)
        num_suspected_anchors == Len(SelectSeq(df_item, LAMBDA r : r.is_suspected_anchor))
        fair_price == clean_quantile(df_clean, exclusive, <<1, 2>>)
        q1_price == clean_quantile(df_clean, exclusive, <<1, 4>>)
        q3_price == clean_quantile(df_clean, exclusive, <<3, 4>>)
    IN  IF df_clean = <<>>
        THEN [item_id |-> item_id, num_listings |-> num_listings,
              num_suspected_anchors |-> num_suspected_anchors,
              fast_sell_price |-> NaN, fair_price |-> NaN, greedy_price |-> NaN,
              clean_median_price |-> NaN, clean_q1_price |-> NaN, clean_q3_price |-> NaN]
        ELSE [item_id |-> item_id, num_listings |-> num_listings,
              num_suspected_anchors |-> num_suspected_anchors,
              fast_sell_price |-> fast_sell_tweak(fast_sell_raw(df_clean, exclusive)),
              fair_price |-> fair_price,
              greedy_price |-> q3_price, clean_median_price |-> fair_price,
              clean_q1_price |-> q1_price, clean_q3_price |-> q3_price]

\* the suggestion engine pricing under the regime of the full book
compute_price_suggestions_one_regime(df_item) ==
    LET df_clean == clean_set(df_item)
    IN  price_suggestions(df_item, df_clean,
            exclusive_mode(SumSeq(Quantities(df_item)), max_level_share(df_item)))

compute_price_suggestions_for_item(df_item) ==
    LET df_clean == clean_set(df_item)
    IN  price_suggestions(df_item, df_clean,
            exclusive_mode(SumSeq(Quantities(df_clean)), max_level_share(df_clean)))

\* ---------------------------------------------------------------- pipeline
\* the listings of one row of the wide table, slots in column order
row_records(row) ==
    LET slot(i) == [item_id |-> row.item_id, listing_rank |-> i,
                    p |-> row.slots[i].price, q |-> row.slots[i].amount]
        all == [i \in 1..Len(row.slots) |-> slot(i)]
        kept == SelectSeq(all, LAMBDA s : ~(isna(s.p) \/ isna(s.q)) /\ ~(s.q[1] <= 0))
    IN  [i \in 1..Len(kept) |->
            [item_id |-> kept[i].item_id, listing_rank |-> kept[i].listing_rank,
             price |-> kept[i].p[1], quantity |-> kept[i].q[1]]]

RECURSIVE Concat(_)
\* the concatenation of the frames of a sequence of frames
Concat(frames) == IF frames = <<>> THEN <<>> ELSE Head(frames) \o Concat(Tail(frames))

wide_to_long(df) == Concat([i \in 1..Len(df) |-> row_records(df[i])])

RECURSIVE SortedKeys(_)
SortedKeys(S) ==
    IF S = {} THEN <<>>
    ELSE LET m == CHOOSE x \in S : \A y \in S : x <= y
         IN  <<m>> \o SortedKeys(S \ {m})

\* the groups of df.groupby("item_id"): ascending keys, rows in frame order
groupby_item_id(df) ==
    LET keys == SortedKeys({df[i].item_id : i \in 1..Len(df)})
    IN  [k \in 1..Len(keys) |-> SelectSeq(df, LAMBDA r : r.item_id = keys[k])]

\* the enrichment run once over the whole frame, without the groupby
enrich_all_items_pooled(df) == IF df = <<>> THEN <<>> ELSE enrich_item_orders(df)

enrich_all_items(df) ==
    LET groups == groupby_item_id(df)
    IN  Concat([k \in 1..Len(groups) |-> enrich_item_orders(groups[k])])

build_summary_from_enriched(df) ==
    LET groups == groupby_item_id(df)
    IN  [k \in 1..Len(groups) |-> compute_price_suggestions_for_item(groups[k])]

\* ------------------------------------------------------------- TokenBucket
\* The balance is an integer number of 1/TokenUnit tokens, so that
\* (now - last) * rate_per_min / 60.0 is exact; the clock counts ticks of
\* TickSeconds seconds.

\* the threads that share the bucket
Callers == {1, 2}

\* the rate the bucket is built with, in tokens per minute
rate_per_min == 2

\* parts of a token the balance is counted in (rate_per_sec =
\* rate_per_min / 60.0)
TokenUnit == 60

\* seconds per tick of the clock
TickSeconds == 15

\* capacity = capacity or rate_per_min, the bucket built with the rate alone
capacity == rate_per_min

\* the arguments of take: up to one token more than the bucket holds
TakeSizes == 1..(capacity + 1)

\* (now - last) * self.rate_per_sec, for now and last in ticks
accrued(now, since) == (now - since) * TickSeconds * rate_per_min

\* the lock taken whether held or not
lock_never_held == TRUE

\* threading.Lock is free
lock_is_free == lock = 0

\* the test passing only on more than the tokens asked for
has_tokens_to_spare(balance, n) == balance > n * TokenUnit

\* self.tokens >= tokens
has_tokens(balance, n) == balance >= n * TokenUnit

\* TokenBucket.__init__
BucketInit ==
    /\ tokens = capacity * TokenUnit
    /\ last = 0
    /\ clock = 0
    /\ lock = 0
    /\ tpc = [t \in Callers |-> "idle"]
    /\ req = [t \in Callers |-> 0]
    /\ tnow = [t \in Callers |-> 0]
    /\ grants = <<>>

\* a thread calls take(n)
Take(t, n) ==
    /\ tpc[t] = "idle"
    /\ tpc' = [tpc EXCEPT ![t] = "lock"]
    /\ req' = [req EXCEPT ![t] = n]
    /\ UNCHANGED <<tokens, last, clock, lock, tnow, grants, market_vars, fetch_vars>>

\* with self.lock:
AcquireLock(t) ==
    /\ tpc[t] = "lock"
    /\ lock_is_free
    /\ lock' = t
    /\ tpc' = [tpc EXCEPT ![t] = "now"]
    /\ UNCHANGED <<tokens, last, clock, req, tnow, grants, market_vars, fetch_vars>>

\* now = time.perf_counter()
ReadClock(t) ==
    /\ tpc[t] = "now"
    /\ tnow' = [tnow EXCEPT ![t] = clock]
    /\ tpc' = [tpc EXCEPT ![t] = "refill"]
    /\ UNCHANGED <<tokens, last, clock, lock, req, grants, market_vars, fetch_vars>>

\* self.tokens = min(self.capacity, self.tokens + (now - self.last) *
\* self.rate_per_sec); self.last = now
Refill(t) ==
    /\ tpc[t] = "refill"
    /\ tokens' = Min2(capacity * TokenUnit, tokens + accrued(tnow[t], last))
    /\ last' = tnow[t]
    /\ tpc' = [tpc EXCEPT ![t] = "check"]
    /\ UNCHANGED <<clock, lock, req, tnow, grants, market_vars, fetch_vars>>

\* if self.tokens >= tokens: ... ; otherwise the with block is left
Check(t) ==
    /\ tpc[t] = "check"
    /\ IF has_tokens(tokens, req[t])
       THEN tpc' = [tpc EXCEPT ![t] = "grant"] /\ UNCHANGED lock
       ELSE tpc' = [tpc EXCEPT ![t] = "sleep"] /\ lock' = 0
    /\ UNCHANGED <<tokens, last, clock, req, tnow, grants, market_vars, fetch_vars>>

\* self.tokens -= tokens; return (which leaves the with block)
Grant(t) ==
    /\ tpc[t] = "grant"
    /\ tokens' = tokens - req[t] * TokenUnit
    /\ lock' = 0
    /\ tpc' = [tpc EXCEPT ![t] = "idle"]
    /\ grants' = Append(grants, [caller |-> t, n |-> req[t], now |-> tnow[t], at |-> clock,
                                 holder |-> lock, before |-> tokens, after |-> tokens'])
    /\ UNCHANGED <<last, clock, req, tnow, market_vars, fetch_vars>>

\* time.sleep(0.01) is over: the loop starts again
Wake(t) ==
    /\ tpc[t] = "sleep"
    /\ tpc' = [tpc EXCEPT ![t] = "lock"]
    /\ UNCHANGED <<tokens, last, clock, lock, req, tnow, grants, market_vars, fetch_vars>>

\* time passes
Tick ==
    /\ clock < MaxClock
    /\ clock' = clock + 1
    /\ UNCHANGED <<tokens, last, lock, tpc, req, tnow, grants, market_vars, fetch_vars>>

\* the calls of take made so far: those that returned and those under way
calls_made == Len(grants) + Cardinality({t \in Callers : tpc[t] # "idle"})

\* a thread calls take(n), one of the MaxCalls calls the threads make
TakeCall(t, n) ==
    /\ calls_made < MaxCalls
    /\ Take(t, n)

\* time passes without end; the clock is advanced while a refill at the
\* present time would leave the balance below the capacity, the time that
\* passes on a bucket already that full adding no token (min(self.capacity,
\* ...))
Elapse ==
    /\ tokens + accrued(clock, last) < capacity * TokenUnit
    /\ clock' = clock + 1
    /\ UNCHANGED <<tokens, last, lock, tpc, req, tnow, grants, market_vars, fetch_vars>>

\* a step of thread t that waits for nothing but the processor
Run(t) == ReadClock(t) \/ Refill(t) \/ Check(t) \/ Grant(t) \/ Wake(t)

\* --------------------------------------------------------------- fetch_100
\* A status code or an error code is <<v>>, None is <<>>.  Durations are
\* integer multiples of 1/BackoffUnit second, which keeps 0.8 * 1.6^k exact
\* for the six sleeps three rounds can make.

RETRIES == 3

BackoffUnit == 5 ^ 7

\* backoff = 0.8
backoff_start == (8 * BackoffUnit) \div 10

\* backoff *= 1.6
backoff_grow(b) == (b * 16) \div 10

\* status in (429, 500, 502, 503, 504)
TransientStatuses == {429, 500, 502, 503, 504}

\* the status codes a response can carry
HttpStatuses == {200, 403} \cup TransientStatuses

\* the codes of the provider's error object: 0 and 10 are retried, 2 is the
\* wrong-key code, 5 stands for every other code
ErrorCodes == {0, 2, 5, 10}

\* the JSON bodies: an object with an "error" member, an object without one
\* (the market data, listings or none), and JSON that is no object
Bodies ==
    [kind : {"error"}, code : {<<c>> : c \in ErrorCodes}]
    \cup {[kind |-> "market", code |-> <<>>], [kind |-> "other", code |-> <<>>]}

\* what attempt_call hands back: a status and a body, or, when it raises,
\* the None status and the error object of code -1 set by the except clause
Outcomes ==
    [status : {<<s>> : s \in HttpStatuses}, data : Bodies]
    \cup {[status |-> <<>>, data |-> [kind |-> "error", code |-> <<-1>>]]}

NoOutcome == [status |-> <<>>, data |-> [kind |-> "none", code |-> <<>>]]

\* the wrong-key test without the exception of the last mode
next_mode_on_any(code, m) == code = <<2>>

\* code == 2 and mode != 3
next_mode_on(code, m) == code = <<2>> /\ m # 3

\* the transient test taking the None status of a raised attempt for one
is_transient_or_raised(st, code) ==
    code \in {<<0>>, <<10>>} \/ st = <<>> \/ \E s \in TransientStatuses : st = <<s>>

\* code in (0, 10) or status in (429, 500, 502, 503, 504)
is_transient(st, code) ==
    code \in {<<0>>, <<10>>} \/ \E s \in TransientStatuses : st = <<s>>

\* how fetch_100 goes on after an attempt: the next mode, a backoff and a
\* new round, an error record, the row, or the AttributeError of
\* (data or {}).get on JSON that is no object
handling(o, m) ==
    IF o.data.kind = "error"
    THEN IF next_mode_on(o.data.code, m) THEN "continue"
         ELSE IF is_transient(o.status, o.data.code) THEN "retry"
         ELSE "error"
    ELSE IF o.data.kind = "other" THEN "raise"
    ELSE "row"

\* the locals of fetch_100 as the call starts
FetchInit ==
    /\ fpc = "loop"
    /\ round = 1
    /\ mode = 1
    /\ backoff = backoff_start
    /\ outcome = NoOutcome
    /\ calls = 0
    /\ takes = 0
    /\ requests = 0
    /\ sleeps = <<>>
    /\ attempts = <<>>
    /\ result = [kind |-> "none", code |-> <<>>]

\* attempt_call(session, bucket, api_key, item_id, mode) is entered
AttemptCall ==
    /\ fpc = "loop"
    /\ calls' = calls + 1
    /\ fpc' = "take"
    /\ UNCHANGED <<round, mode, backoff, outcome, takes, requests, sleeps, attempts, result,
                   market_vars, bucket_vars>>

\* bucket.take(1)
BucketTake ==
    /\ fpc = "take"
    /\ takes' = takes + 1
    /\ fpc' = "get"
    /\ UNCHANGED <<round, mode, backoff, outcome, calls, requests, sleeps, attempts, result,
                   market_vars, bucket_vars>>

\* session.get(...), response.json(): a response, or an exception that the
\* except clause of fetch_100 turns into the error object of code -1
SessionGet ==
    /\ fpc = "get"
    /\ requests' = requests + 1
    /\ \E o \in Outcomes : outcome' = o
    /\ fpc' = "handle"
    /\ UNCHANGED <<round, mode, backoff, calls, takes, sleeps, attempts, result,
                   market_vars, bucket_vars>>

\* the body of the inner loop after the attempt
Handle ==
    /\ fpc = "handle"
    /\ LET h == handling(outcome, mode)
       IN  /\ attempts' = Append(attempts, [round |-> round, mode |-> mode, handled |-> h])
           /\ CASE h = "continue" ->
                       /\ IF mode < 3 THEN mode' = mode + 1 /\ fpc' = "loop"
                          ELSE fpc' = "round_sleep" /\ UNCHANGED mode
                       /\ UNCHANGED <<result, exc>>
                [] h = "retry" -> fpc' = "sleep" /\ UNCHANGED <<mode, result, exc>>
                [] h = "error" ->
                       /\ result' = [kind |-> "API error", code |-> outcome.data.code]
                       /\ fpc' = "returned"
                       /\ UNCHANGED <<mode, exc>>
                [] h = "row" ->
                       /\ result' = [kind |-> "row", code |-> <<>>]
                       /\ fpc' = "returned"
                       /\ UNCHANGED <<mode, exc>>
                [] h = "raise" ->
                       /\ exc' = "AttributeError"
                       /\ fpc' = "raised"
                       /\ UNCHANGED <<mode, result>>
    /\ UNCHANGED <<round, backoff, outcome, calls, takes, requests, sleeps,
                   table, long_df, enriched, summary, pc, bucket_vars>>

\* time.sleep(backoff); backoff *= 1.6; break
SleepBackoff ==
    /\ fpc = "sleep"
    /\ sleeps' = Append(sleeps, backoff)
    /\ backoff' = backoff_grow(backoff)
    /\ fpc' = "round_sleep"
    /\ UNCHANGED <<round, mode, outcome, calls, takes, requests, attempts, result,
                   market_vars, bucket_vars>>

\* after the inner loop: time.sleep(backoff); backoff *= 1.6; then the next
\* round, if one is left
SleepRound ==
    /\ fpc = "round_sleep"
    /\ sleeps' = Append(sleeps, backoff)
    /\ backoff' = backoff_grow(backoff)
    /\ IF round < RETRIES
       THEN round' = round + 1 /\ mode' = 1 /\ fpc' = "loop"
       ELSE fpc' = "exhausted" /\ UNCHANGED <<round, mode>>
    /\ UNCHANGED <<outcome, calls, takes, requests, attempts, result,
                   market_vars, bucket_vars>>

\* return {..., "error": "Exhausted retries"}
ReturnExhausted ==
    /\ fpc = "exhausted"
    /\ result' = [kind |-> "Exhausted retries", code |-> <<>>]
    /\ fpc' = "returned"
    /\ UNCHANGED <<round, mode, backoff, outcome, calls, takes, requests, sleeps, attempts,
                   market_vars, bucket_vars>>

\* ------------------------------------------------------------ input sets
ItemIds == {1, 2}

NullCell == [price |-> <<>>, amount |-> <<>>]

\* slots of the two-item tables: unfilled, half-filled, and filled with zero
\* or positive prices and amounts
TableCells ==
    {NullCell, [price |-> <<Cur(100)>>, amount |-> <<>>], [price |-> <<>>, amount |-> <<5>>]}
    \cup [price : {<<0>>, <<Cur(100)>>, <<Cur(5000)>>}, amount : {<<0>>, <<5>>}]

\* prices 0 (wide_to_long lets it through), 0.5, 100, 110.5 and 5000;
\* amounts around the 50, 100 and 200 thresholds
BookPrices == {0, 4, Cur(100), Cur(110) + 4, Cur(5000)}

BookAmounts == {3, 50, 100, 300}

\* the listings of a market feed: n of them, ascending by price
FeedListings(n) ==
    {s \in [1..n -> [price : BookPrices, amount : BookAmounts]] :
        \A i \in 1..(n - 1) : s[i].price <= s[i + 1].price}

\* a row as fetch_100 builds it: the listings, then unfilled slots up to k
FeedRow(s, k) ==
    [i \in 1..k |-> IF i <= Len(s)
                    THEN [price |-> <<s[i].price>>, amount |-> <<s[i].amount>>]
                    ELSE NullCell]

\* the listings fetch_100 keeps of one item
FeedLimit == 100

\* frame lengths of the direct calls on long frames: a few rows, and around
\* the feed limit
BulkLens == (0..MaxRows) \cup ((FeedLimit - 1)..(FeedLimit + 2))

BulkQuantities == {1, 2, 3, 100}

BulkHeads == {2, 150}

\* a frame of n listings at n different prices, ascending or descending,
\* the first of quantity head and the others of quantity q, the last k
\* flagged
BulkFrame(n, head, q, k, asc) ==
    [i \in 1..n |->
        [item_id |-> 1, listing_rank |-> i,
         price |-> Cur(100) + 4 * (IF asc THEN i ELSE n + 1 - i),
         quantity |-> IF i = 1 THEN head ELSE q,
         is_suspected_anchor |-> i > n - k]]

\* ------------------------------------------------------------- the system
Init ==
    /\ \E f \in [ItemIds -> [1..TableSlots -> TableCells]] :
           table = [i \in 1..Cardinality(ItemIds) |-> [item_id |-> i, slots |-> f[i]]]
    /\ long_df = <<>>
    /\ enriched = <<>>
    /\ summary = <<>>
    /\ pc = "wide"
    /\ exc = "none"
    /\ BucketInit
    /\ FetchInit

InitBook ==
    /\ \E n \in 0..MaxSlots : \E s \in FeedListings(n) :
           table = <<[item_id |-> 1, slots |-> FeedRow(s, MaxSlots)]>>
    /\ long_df = <<>>
    /\ enriched = <<>>
    /\ summary = <<>>
    /\ pc = "wide"
    /\ exc = "none"
    /\ BucketInit
    /\ FetchInit

\* a direct call of compute_price_suggestions_for_item: the frame of one
\* item, enriched, with any subset of its rows flagged
InitSuggest ==
    /\ \E n \in 0..MaxRows : \E s \in FeedListings(n) : \E flags \in [1..n -> BOOLEAN] :
           /\ table = <<[item_id |-> 1, slots |-> FeedRow(s, n)]>>
           /\ enriched = [i \in 1..n |->
                             [item_id |-> 1, listing_rank |-> i, price |-> s[i].price,
                              quantity |-> s[i].amount, is_suspected_anchor |-> flags[i]]]
    /\ long_df = <<>>
    /\ summary = <<>>
    /\ pc = "call"
    /\ exc = "none"
    /\ BucketInit
    /\ FetchInit

\* a direct call of compute_price_suggestions_for_item on a long frame
InitBulk ==
    /\ \E n \in BulkLens : \E head \in BulkHeads : \E q \in BulkQuantities :
       \E k \in 0..1 : \E asc \in BOOLEAN :
           enriched = BulkFrame(n, head, q, k, asc)
    /\ table = <<>>
    /\ long_df = <<>>
    /\ summary = <<>>
    /\ pc = "call"
    /\ exc = "none"
    /\ BucketInit
    /\ FetchInit

WideToLong ==
    /\ pc = "wide"
    /\ long_df' = wide_to_long(table)
    /\ pc' = "long"
    /\ UNCHANGED <<table, enriched, summary, exc, bucket_vars, fetch_vars>>

EnrichAllItems ==
    /\ pc = "long"
    /\ enriched' = enrich_all_items(long_df)
    /\ pc' = "enriched"
    /\ UNCHANGED <<table, long_df, summary, exc, bucket_vars, fetch_vars>>

BuildSummary ==
    /\ pc = "enriched"
    /\ summary' = build_summary_from_enriched(enriched)
    /\ pc' = "done"
    /\ UNCHANGED <<table, long_df, enriched, exc, bucket_vars, fetch_vars>>

CallSuggestions ==
    /\ pc = "call"
    /\ IF raises_IndexError(enriched)
       THEN exc' = "IndexError" /\ UNCHANGED summary
       ELSE summary' = <<compute_price_suggestions_for_item(enriched)>> /\ UNCHANGED exc
    /\ pc' = "done"
    /\ UNCHANGED <<table, long_df, enriched, bucket_vars, fetch_vars>>

Next == WideToLong \/ EnrichAllItems \/ BuildSummary

NextSuggest == CallSuggestions

Spec == Init /\ [][Next]_vars

SpecBook == InitBook /\ [][Next]_vars

SpecSuggest == InitSuggest /\ [][NextSuggest]_vars

SpecBulk == InitBulk /\ [][NextSuggest]_vars

\* the threads of the callers taking tokens from one bucket while time passes
InitBucket ==
    /\ BucketInit
    /\ FetchInit
    /\ table = <<>>
    /\ long_df = <<>>
    /\ enriched = <<>>
    /\ summary = <<>>
    /\ pc = "fetch"
    /\ exc = "none"

NextBucket ==
    \/ \E t \in Callers : \E n \in TakeSizes : Take(t, n)
    \/ \E t \in Callers : AcquireLock(t)
    \/ \E t \in Callers : ReadClock(t)
    \/ \E t \in Callers : Refill(t)
    \/ \E t \in Callers : Check(t)
    \/ \E t \in Callers : Grant(t)
    \/ \E t \in Callers : Wake(t)
    \/ Tick

SpecBucket == InitBucket /\ [][NextBucket]_vars

\* the same threads making MaxCalls calls in all, time passing without end.
\* Every thread that can run does run (it is scheduled, its sleep of 0.01 s
\* ends), time passes, and a thread waiting for the lock gets it if the lock
\* is free again and again: it is held for the few statements of the with
\* block and free while its holders sleep.
NextBucketFair ==
    \/ \E t \in Callers : \E n \in TakeSizes : TakeCall(t, n)
    \/ \E t \in Callers : AcquireLock(t)
    \/ \E t \in Callers : Run(t)
    \/ Elapse

FairScheduling ==
    /\ \A t \in Callers : WF_vars(Run(t))
    /\ \A t \in Callers : SF_vars(AcquireLock(t))
    /\ WF_vars(Elapse)

SpecBucketFair == InitBucket /\ [][NextBucketFair]_vars /\ FairScheduling

\* one call of fetch_100, whatever the attempts return
InitFetch ==
    /\ FetchInit
    /\ BucketInit
    /\ table = <<>>
    /\ long_df = <<>>
    /\ enriched = <<>>
    /\ summary = <<>>
    /\ pc = "fetch"
    /\ exc = "none"

NextFetch ==
    \/ AttemptCall
    \/ BucketTake
    \/ SessionGet
    \/ Handle
    \/ SleepBackoff
    \/ SleepRound
    \/ ReturnExhausted

SpecFetch == InitFetch /\ [][NextFetch]_vars

\* fetch_100 is sequential code: every call it makes (the attempt, the
\* sleep) returns, so the step that is enabled is eventually taken
SpecFetchFair == SpecFetch /\ WF_vars(NextFetch)

\* ================================================================ claims
\* Definitions used to state the claims, written from the claims' words and
\* not through the operators above.

\* the rows of a frame that are not flagged
Unflagged(df) == SelectSeq(df, LAMBDA r : ~r.is_suspected_anchor)

AllFlagged(df) == \A i \in 1..Len(df) : df[i].is_suspected_anchor

\* the clean set of the claims: the rows not flagged, or the whole book
ExpectedClean(df) == IF AllFlagged(df) THEN df ELSE Unflagged(df)

PriceSet(df) == {df[i].price : i \in 1..Len(df)}

TotalQty(df) == SumSeq([i \in 1..Len(df) |-> df[i].quantity])

\* the quantity listed at prices <= x
QtyUpTo(df, x) ==
    SumSeq([i \in 1..Len(df) |-> IF df[i].price <= x THEN df[i].quantity ELSE 0])

QtyAt(df, x) ==
    SumSeq([i \in 1..Len(df) |-> IF df[i].price = x THEN df[i].quantity ELSE 0])

\* Exclusive iff total_qty <= 200 or some price level holds >= 50% of it
IsExclusive(df) ==
    \/ TotalQty(df) <= 200
    \/ \E x \in PriceSet(df) : 2 * QtyAt(df, x) >= TotalQty(df)

\* the k-th smallest of the prices of df (k from 1)
Kth(df, k) ==
    CHOOSE x \in PriceSet(df) :
        /\ Cardinality({i \in 1..Len(df) : df[i].price < x}) < k
        /\ Cardinality({i \in 1..Len(df) : df[i].price <= x}) >= k

\* the standard (linearly interpolated) j-th quartile of the prices, j = 1, 2, 3
StdQuartile(df, j) ==
    LET h == j * (Len(df) - 1)
        lo == Kth(df, h \div 4 + 1)
        hi == Kth(df, Min2(h \div 4 + 2, Len(df)))
    IN  lo + ((hi - lo) * (h % 4)) \div 4

\* the quantity-weighted j-th quartile: the least price up to which at least
\* j/4 of the total quantity is listed
WeightedQuartile(df, j) ==
    CHOOSE x \in PriceSet(df) :
        /\ 4 * QtyUpTo(df, x) >= j * TotalQty(df)
        /\ \A y \in PriceSet(df) : y < x => 4 * QtyUpTo(df, y) < j * TotalQty(df)

\* a slot that holds a valid listing: both values present and positive
ValidSlot(c) == c.price # <<>> /\ c.amount # <<>> /\ c.price[1] > 0 /\ c.amount[1] > 0

NoValidListing(row) == \A i \in 1..Len(row.slots) : ~ValidSlot(row.slots[i])

RecordsOf(id) == SelectSeq(summary, LAMBDA r : r.item_id = id)

NoDataRecord(r) ==
    /\ r.num_listings = 0
    /\ r.fast_sell_price = NaN /\ r.fair_price = NaN /\ r.greedy_price = NaN
    /\ r.clean_q1_price = NaN /\ r.clean_median_price = NaN /\ r.clean_q3_price = NaN

\* C1: once the pipeline has run, every item row of the table has exactly one
\* suggestion record, no exception was raised, and the record of a row
\* without a valid listing is the no-data record (num_listings = 0, every
\* price field NaN).
C1_OneRecordPerRow ==
    pc = "done" =>
        /\ exc = "none"
        /\ \A i \in 1..Len(table) :
               /\ Len(RecordsOf(table[i].item_id)) = 1
               /\ NoValidListing(table[i]) => NoDataRecord(RecordsOf(table[i].item_id)[1])

\* C2: every listing the normalizer emits, and so every listing a later
\* stage sees, has price > 0 and quantity > 0.
C2_ListingsPositive ==
    /\ \A i \in 1..Len(long_df) : long_df[i].price > 0 /\ long_df[i].quantity > 0
    /\ \A i \in 1..Len(enriched) : enriched[i].price > 0 /\ enriched[i].quantity > 0

\* C3: for a non-empty book, whatever rows are flagged, the clean set the
\* suggestion engine prices against is non-empty: the rows not flagged when
\* there is one, the whole book otherwise; so the record it returns is never
\* the no-data record.
C3_CleanSetNonEmpty ==
    (pc = "done" /\ enriched # <<>>) =>
        /\ clean_set(enriched) # <<>>
        /\ clean_set(enriched) = ExpectedClean(enriched)
        /\ exc = "none"
        /\ Len(summary) = 1
        /\ summary[1].fair_price # NaN
        /\ summary[1].fast_sell_price # NaN
        /\ summary[1].greedy_price # NaN

\* C3 witness: a book of several listings, every one flagged, has been priced
C3_Witness ==
    /\ pc = "done"
    /\ Len(enriched) >= 2
    /\ AllFlagged(enriched)
    /\ Len(summary) = 1

\* the record of the single item of a book
Rec == summary[1]

Priced == pc = "done" /\ Len(summary) = 1

\* max(floor(x) - 1, 0) of a price x, in fine units
Undercut(x) == IF (x \div Unit) * Unit - Unit > 0 THEN (x \div Unit) * Unit - Unit ELSE 0

\* C4: for a book whose clean set has at least one listing, the record has
\* clean_q1_price <= fair_price <= clean_q3_price, under the weighted
\* (Normal) and the unweighted (Exclusive) quantiles alike.
C4_QuartilesOrdered ==
    Priced =>
        /\ Rec.clean_q1_price # NaN
        /\ Rec.clean_q1_price <= Rec.fair_price
        /\ Rec.fair_price <= Rec.clean_q3_price
        /\ Rec.clean_median_price = Rec.fair_price

\* C4 witness: a Normal clean set whose three quartiles are all different
C4_Witness ==
    /\ Priced
    /\ ~IsExclusive(ExpectedClean(enriched))
    /\ Rec.clean_q1_price < Rec.fair_price
    /\ Rec.fair_price < Rec.clean_q3_price

\* C5: for a non-empty book, fast_sell_price >= 0 and it is
\* max(floor(x) - 1, 0) for the price x of a listing of the clean set.
C5_FastSellFromCleanPrice ==
    Priced =>
        /\ Rec.fast_sell_price >= 0
        /\ \E x \in PriceSet(ExpectedClean(enriched)) : Rec.fast_sell_price = Undercut(x)

\* C5 witness: some listing was removed as an anchor, another remains, and
\* the reference price is a fractional one, cut down by floor and by 1
C5_Witness ==
    /\ Priced
    /\ ~AllFlagged(enriched)
    /\ Unflagged(enriched) # enriched
    /\ \E x \in PriceSet(Unflagged(enriched)) :
           /\ x % Unit # 0
           /\ x > Unit
           /\ Rec.fast_sell_price = Undercut(x)
           /\ \A y \in PriceSet(enriched) \ {x} : Rec.fast_sell_price # Undercut(y)

EqualQty(df) == \A i, j \in 1..Len(df) : df[i].quantity = df[j].quantity

Enriched == pc \in {"enriched", "done"} /\ enriched # <<>>

\* ceil(a / b)
CeilDiv(a, b) == (a + b - 1) \div b

\* C6 as stated: in a book whose listings all have the same quantity, the
\* weighted median, 25th and 75th percentile equal the standard unweighted
\* (interpolated) median, 25th and 75th percentile of the prices.
C6_WeightedEqualsStandard ==
    (Enriched /\ EqualQty(enriched)) =>
        \A i \in 1..Len(enriched) :
            /\ enriched[i].price_median = StdQuartile(enriched, 2)
            /\ enriched[i].price_q1 = StdQuartile(enriched, 1)
            /\ enriched[i].price_q3 = StdQuartile(enriched, 3)

\* C6 amended: in a book of n listings of equal quantity, the weighted
\* median, 25th and 75th percentile are the nearest-rank quantiles, the
\* prices of the ceil(n/2)-th, ceil(n/4)-th and ceil(3n/4)-th cheapest
\* listing; the median equals the standard median when n is odd, and the
\* quartiles equal the standard quartiles when n = 1 (mod 4).
C6_WeightedIsNearestRank ==
    (Enriched /\ EqualQty(enriched)) =>
        LET n == Len(enriched)
        IN  \A i \in 1..n :
                /\ enriched[i].price_median = Kth(enriched, CeilDiv(n, 2))
                /\ enriched[i].price_q1 = Kth(enriched, CeilDiv(n, 4))
                /\ enriched[i].price_q3 = Kth(enriched, CeilDiv(3 * n, 4))
                /\ n % 2 = 1 => enriched[i].price_median = StdQuartile(enriched, 2)
                /\ n % 4 = 1 =>
                       /\ enriched[i].price_q1 = StdQuartile(enriched, 1)
                       /\ enriched[i].price_q3 = StdQuartile(enriched, 3)

\* C6 witness: four listings of equal quantity at four different prices
C6_Witness ==
    /\ Enriched
    /\ EqualQty(enriched)
    /\ Len(enriched) = 4
    /\ Cardinality(PriceSet(enriched)) = 4
    /\ enriched[1].price_q1 # StdQuartile(enriched, 1)

\* C7: the suggested prices are ordered, fast_sell_price <= fair_price <=
\* greedy_price, for every non-empty book.
C7_PricesOrdered ==
    Priced => (Rec.fast_sell_price <= Rec.fair_price /\ Rec.fair_price <= Rec.greedy_price)

PositiveBook(df) == \A i \in 1..Len(df) : df[i].price > 0 /\ df[i].quantity > 0

\* cum_qty_pct < 0.02 or cum_qty_pct > 0.98
Shallow(r) ==
    \/ 100 * r.cum_qty_pct[1] < 2 * r.cum_qty_pct[2]
    \/ 100 * r.cum_qty_pct[1] > 98 * r.cum_qty_pct[2]

\* |robust z| > 5.0
ZAbove5(r) ==
    IF r.robust_z[1] >= 0 THEN r.robust_z[1] > 5 * r.robust_z[2]
    ELSE -r.robust_z[1] > 5 * r.robust_z[2]

ExclusiveRule(r) == r.price > 10 * r.price_median /\ (Shallow(r) \/ r.quantity <= 50)

NormalRule(r) == ZAbove5(r) /\ Shallow(r) /\ r.quantity < 50

\* C8: in a non-empty book of positive prices and quantities a listing is
\* flagged exactly when, the full book being Exclusive, price > 10 x median
\* and (shallow or quantity <= 50), or, the full book being Normal,
\* |robust z| > 5 and shallow and quantity < 50.
C8_AnchorRule ==
    (Enriched /\ PositiveBook(enriched)) =>
        \A i \in 1..Len(enriched) :
            LET r == enriched[i]
            IN  r.is_suspected_anchor <=>
                    IF IsExclusive(enriched) THEN ExclusiveRule(r) ELSE NormalRule(r)

\* C8 witness: a Normal book with a flagged listing and with a tail listing
\* of quantity exactly 50 that is far out and left unflagged
C8_Witness ==
    /\ Enriched
    /\ PositiveBook(enriched)
    /\ ~IsExclusive(enriched)
    /\ \E i \in 1..Len(enriched) : enriched[i].is_suspected_anchor
    /\ \E i \in 1..Len(enriched) :
           /\ enriched[i].quantity = 50
           /\ ZAbove5(enriched[i])
           /\ Shallow(enriched[i])
           /\ ~enriched[i].is_suspected_anchor

MinPrice(df) == CHOOSE x \in PriceSet(df) : \A y \in PriceSet(df) : x <= y

MaxPrice(df) == CHOOSE x \in PriceSet(df) : \A y \in PriceSet(df) : x >= y

\* C10: in a book with a listing that is not flagged, fair_price and
\* greedy_price lie between the lowest and the highest price not flagged,
\* fast_sell_price is max(floor(x) - 1, 0) for a price x not flagged, and
\* none of the three exceeds the highest price not flagged.
C10_FlaggedExcluded ==
    (Priced /\ ~AllFlagged(enriched)) =>
        LET u == Unflagged(enriched)
        IN  /\ MinPrice(u) <= Rec.fair_price /\ Rec.fair_price <= MaxPrice(u)
            /\ MinPrice(u) <= Rec.greedy_price /\ Rec.greedy_price <= MaxPrice(u)
            /\ \E x \in PriceSet(u) : Rec.fast_sell_price = Undercut(x)
            /\ Rec.fast_sell_price <= MaxPrice(u)

\* C10 witness: a Normal book with one flagged decoy of small quantity at
\* the tail, priced above ten times every other listing
C10_Witness ==
    /\ Priced
    /\ ~IsExclusive(enriched)
    /\ Len(enriched) >= 3
    /\ enriched[Len(enriched)].is_suspected_anchor
    /\ enriched[Len(enriched)].quantity < 50
    /\ \A i \in 1..(Len(enriched) - 1) :
           /\ ~enriched[i].is_suspected_anchor
           /\ enriched[Len(enriched)].price > 10 * enriched[i].price

\* a non-empty book whose listings all have the same price P > 0
FlatBook(df) == df # <<>> /\ df[1].price > 0 /\ \A i \in 1..Len(df) : df[i].price = df[1].price

\* C11: in a non-empty book whose listings all have the same price P > 0,
\* median = q1 = q3 = P, IQR = 0, MAD = 0, robust z = 0 and is_extreme_price
\* is false for every listing, no listing is flagged, and the record has
\* num_suspected_anchors = 0, fair_price = greedy_price = clean_q1_price =
\* clean_q3_price = P and fast_sell_price = max(floor(P) - 1, 0).
C11_FlatBook ==
    (Enriched /\ FlatBook(enriched)) =>
        LET P == enriched[1].price
        IN  /\ \A i \in 1..Len(enriched) :
                   LET r == enriched[i]
                   IN  /\ r.price_median = P /\ r.price_q1 = P /\ r.price_q3 = P
                       /\ r.price_iqr = 0 /\ r.price_mad = 0
                       /\ r.robust_z[1] = 0 /\ r.robust_z[2] # 0
                       /\ ~r.is_extreme_price
                       /\ ~r.is_suspected_anchor
            /\ Priced =>
                   /\ Rec.num_suspected_anchors = 0
                   /\ Rec.num_listings = Len(enriched)
                   /\ Rec.fair_price = P /\ Rec.greedy_price = P
                   /\ Rec.clean_q1_price = P /\ Rec.clean_q3_price = P
                   /\ Rec.fast_sell_price = Undercut(P)

\* C11 witness: a priced book of several listings of small quantity, all at
\* the same fractional price
C11_Witness ==
    /\ Priced
    /\ FlatBook(enriched)
    /\ Len(enriched) >= 3
    /\ enriched[1].price % Unit # 0
    /\ enriched[1].price > Unit
    /\ \E i \in 1..Len(enriched) : enriched[i].quantity < 50

\* the rows of a frame that belong to one item
RowsOf(df, id) == SelectSeq(df, LAMBDA r : r.item_id = id)

\* the table with every other item removed
Alone(id) == SelectSeq(table, LAMBDA row : row.item_id = id)

\* C12: per-item independence. For every item A of the table, the enriched
\* rows of A (the anchor flags among them) and the suggestion record of A
\* are those the pipeline yields on the table that holds the row of A alone.
\* Two tables that agree on A then agree on the flags and the record of A,
\* whatever their other items are, since both agree with the table of A
\* alone.
C12_PerItemIndependence ==
    pc = "done" =>
        \A id \in ItemIds :
            LET alone == enrich_all_items(wide_to_long(Alone(id)))
            IN  /\ RowsOf(enriched, id) = alone
                /\ RecordsOf(id) = build_summary_from_enriched(alone)

\* C12 witness: two items have been priced; a listing of item 1 is flagged,
\* and item 2 lists at other prices with nothing flagged
C12_Witness ==
    /\ pc = "done"
    /\ Len(summary) = 2
    /\ \E i \in 1..Len(enriched) :
           enriched[i].item_id = 1 /\ enriched[i].is_suspected_anchor
    /\ \A i \in 1..Len(enriched) :
           enriched[i].item_id = 2 => ~enriched[i].is_suspected_anchor
    /\ PriceSet(RowsOf(enriched, 1)) # PriceSet(RowsOf(enriched, 2))

\* the quantity listed at an absolute deviation <= d from the price m
QtyDevUpTo(df, m, d) ==
    SumSeq([i \in 1..Len(df) |-> IF Abs(df[i].price - m) <= d THEN df[i].quantity ELSE 0])

\* the k-th smallest absolute deviation from the weighted median, over the
\* multiset in which each listing counts quantity times (k from 1)
DevAt(df, k) ==
    LET m == WeightedQuartile(df, 2)
        devs == {Abs(df[i].price - m) : i \in 1..Len(df)}
    IN  CHOOSE d \in devs :
            /\ QtyDevUpTo(df, m, d) >= k
            /\ \A e \in devs : e < d => QtyDevUpTo(df, m, e) < k

\* the quantity-weighted median of |price - weighted median|, by the rule of
\* the weighted median: the first deviation whose cumulative quantity
\* reaches half of the total
WeightedMedianDev(df) ==
    LET m == WeightedQuartile(df, 2)
        devs == {Abs(df[i].price - m) : i \in 1..Len(df)}
    IN  CHOOSE d \in devs :
            /\ 2 * QtyDevUpTo(df, m, d) >= TotalQty(df)
            /\ \A e \in devs : e < d => 2 * QtyDevUpTo(df, m, e) < TotalQty(df)

PositiveQty(df) == \A i \in 1..Len(df) : df[i].quantity > 0

\* C16 as stated: in a non-empty book of positive integer quantities the MAD
\* of add_price_stats_for_item equals the quantity-weighted median of
\* |price - weighted median| under the first-cumulative-quantity->=-half
\* rule, for every total quantity, even or odd.
C16_MadEqualsWeightedMedianDev ==
    (Enriched /\ PositiveQty(enriched)) =>
        \A i \in 1..Len(enriched) : enriched[i].price_mad = WeightedMedianDev(enriched)

\* C16 amended: the MAD equals that weighted median when the total quantity
\* T is odd; when T is even it is the mean of the (T/2)-th and the
\* (T/2 + 1)-th smallest deviation of the expanded multiset, of which the
\* weighted median is the first, so the MAD is never below the weighted
\* median and equals it exactly when the two middle deviations coincide.
C16_MadIsExpansionMedian ==
    (Enriched /\ PositiveQty(enriched)) =>
        LET T == TotalQty(enriched)
            wmd == WeightedMedianDev(enriched)
        IN  \A i \in 1..Len(enriched) :
                LET mad == enriched[i].price_mad
                IN  /\ T % 2 = 1 => mad = wmd
                    /\ T % 2 = 0 =>
                           /\ DevAt(enriched, T \div 2) = wmd
                           /\ 2 * mad = wmd + DevAt(enriched, T \div 2 + 1)
                    /\ mad >= wmd

\* C16 witness: a book of even total quantity whose two middle deviations
\* differ, so that the MAD lies strictly above the weighted median of the
\* deviations
C16_Witness ==
    /\ Enriched
    /\ PositiveQty(enriched)
    /\ TotalQty(enriched) % 2 = 0
    /\ enriched[1].price_mad > WeightedMedianDev(enriched)

\* the least price up to which at least t units of df are listed
PriceReaching(df, t) ==
    CHOOSE x \in PriceSet(df) :
        /\ QtyUpTo(df, x) >= t
        /\ \A y \in PriceSet(df) : y < x => QtyUpTo(df, y) < t

\* clean regime Normal with at most 2 units per listing on average
UnitStyle(clean) == ~IsExclusive(clean) /\ TotalQty(clean) <= 2 * Len(clean)

\* the raw fast-sell reference of a clean set, as the claim words it
RawReference(clean) ==
    IF IsExclusive(clean) THEN Kth(clean, Min2(3, Len(clean)))
    ELSE IF UnitStyle(clean) THEN Kth(clean, Min2(10, Len(clean)))
    ELSE PriceReaching(clean, Min2(100, TotalQty(clean)))

\* C17: once a non-empty frame has been priced, the raw fast-sell reference
\* is the price of the 3rd-cheapest clean listing (of the last one when
\* fewer than 3 exist) when the clean regime is Exclusive, of the
\* min(10, count)-th cheapest when it is Normal with total_clean_qty / count
\* <= 2, and of the first listing at which the cumulative clean quantity
\* reaches min(100, total_clean_qty) otherwise; no index is out of range,
\* and fast_sell_price is max(floor(reference) - 1, 0).
C17_RawFastSellReference ==
    Priced =>
        LET clean == ExpectedClean(enriched)
            raw == fast_sell_raw(clean_set(enriched),
                                 exclusive_mode(SumSeq(Quantities(clean_set(enriched))),
                                                max_level_share(clean_set(enriched))))
        IN  /\ exc = "none"
            /\ raw = RawReference(clean)
            /\ raw \in PriceSet(clean)
            /\ Rec.fast_sell_price = Undercut(RawReference(clean))

\* C17 witness: a priced frame whose clean set is unit-style and has more
\* than 10 listings, so that the 10th-cheapest price is neither the 3rd
\* cheapest nor the price where 100 units are reached
C17_Witness ==
    /\ Priced
    /\ UnitStyle(ExpectedClean(enriched))
    /\ Unflagged(enriched) # enriched
    /\ Kth(ExpectedClean(enriched), 10) # Kth(ExpectedClean(enriched), 3)
    /\ Kth(ExpectedClean(enriched), 10) # PriceReaching(ExpectedClean(enriched), 100)
    /\ Rec.fast_sell_price = Undercut(Kth(ExpectedClean(enriched), 10))

\* the listings at the weighted median price of the book
AtMedian(df) == {i \in 1..Len(df) : df[i].price = WeightedQuartile(df, 2)}

\* C18: in a non-empty book with quantities > 0, no listing whose price is
\* the weighted median of the book is flagged under either regime rule; so
\* some listing is left unflagged, the record has num_suspected_anchors <
\* num_listings, and the clean set is the set of unflagged rows, never the
\* fall-back to the unfiltered book.
C18_MedianNeverFlagged ==
    (Enriched /\ PositiveQty(enriched)) =>
        /\ AtMedian(enriched) # {}
        /\ \A i \in AtMedian(enriched) : ~enriched[i].is_suspected_anchor
        /\ ~AllFlagged(enriched)
        /\ Unflagged(enriched) # <<>>
        /\ clean_set(enriched) = Unflagged(enriched)
        /\ Priced =>
               /\ Rec.num_suspected_anchors < Rec.num_listings
               /\ Rec.num_listings = Len(enriched)
               /\ Rec.num_suspected_anchors = Len(enriched) - Len(Unflagged(enriched))

\* C18 witness: a priced book with a flagged listing, whose median-priced
\* listings are small enough (quantity < 50) for the size test of both rules
C18_Witness ==
    /\ Priced
    /\ PositiveQty(enriched)
    /\ \E i \in 1..Len(enriched) : enriched[i].is_suspected_anchor
    /\ \A i \in AtMedian(enriched) : enriched[i].quantity < 50

\* C19: whenever the full book of an item (positive integer quantities) is
\* Normal (total_qty > 200 and every price level below 50% of it), the MAD
\* of add_price_stats_for_item is strictly positive; MAD = 0 implies the
\* Exclusive regime, and a listing judged by the Normal rule never has the
\* z = 0 of the MAD = 0 branch forced on it.
C19_NormalHasPositiveMad ==
    (Enriched /\ PositiveQty(enriched)) =>
        \A i \in 1..Len(enriched) :
            LET r == enriched[i]
            IN  /\ ~IsExclusive(enriched) =>
                       /\ r.price_mad > 0
                       /\ r.robust_z = <<1349 * (r.price - r.price_median), 2000 * r.price_mad>>
                /\ r.price_mad = 0 => IsExclusive(enriched)

\* C19 witness: a Normal book in which the listings at the median price
\* hold more than 45% of the quantity, and a listing is flagged by the
\* Normal rule
C19_Witness ==
    /\ Enriched
    /\ PositiveQty(enriched)
    /\ ~IsExclusive(enriched)
    /\ 100 * QtyAt(enriched, WeightedQuartile(enriched, 2)) > 45 * TotalQty(enriched)
    /\ enriched[1].price_mad > 0
    /\ \E i \in 1..Len(enriched) : enriched[i].is_suspected_anchor

\* the unit-style branch is taken in the call that priced the frame
UnitStyleTaken ==
    LET df_clean == clean_set(enriched)
    IN  unit_style(df_clean,
                   exclusive_mode(SumSeq(Quantities(df_clean)), max_level_share(df_clean)))

\* C20: the unit-style fast-sell branch (clean regime Normal and
\* total_clean_qty / count <= 2) is taken only on a clean set of more than
\* 100 listings; a frame of at most 100 listings, which is all a row of
\* fetch_100 can yield, never takes it and is priced by the Exclusive or the
\* bulk rule; and whenever the branch is taken min(10, count) = 10, so the
\* reference is the 10th-cheapest clean price.
C20_UnitStyleNeedsLongBook ==
    Priced =>
        LET clean == ExpectedClean(enriched)
        IN  /\ UnitStyleTaken <=> UnitStyle(clean)
            /\ UnitStyleTaken =>
                   /\ Len(clean) > 100
                   /\ Len(enriched) > FeedLimit
                   /\ Min2(10, Len(clean)) = 10
                   /\ Rec.fast_sell_price = Undercut(Kth(clean, 10))
            /\ Len(enriched) <= FeedLimit =>
                   /\ ~UnitStyleTaken
                   /\ Rec.fast_sell_price =
                          Undercut(IF IsExclusive(clean) THEN Kth(clean, Min2(3, Len(clean)))
                                   ELSE PriceReaching(clean, Min2(100, TotalQty(clean))))

\* C20 witness: the shortest clean set that takes the branch has been
\* priced: 101 listings holding 202 units
C20_Witness ==
    /\ Priced
    /\ UnitStyleTaken
    /\ Len(ExpectedClean(enriched)) = FeedLimit + 1
    /\ TotalQty(ExpectedClean(enriched)) = 2 * (FeedLimit + 1)

\* tokens granted by the calls that returned at a time within a..b
GrantedAt(a, b) ==
    SumSeq([i \in 1..Len(grants) |->
               IF a <= grants[i].at /\ grants[i].at <= b THEN grants[i].n ELSE 0])

\* tokens granted by the calls whose clock reading lies within a..b
GrantedReadAt(a, b) ==
    SumSeq([i \in 1..Len(grants) |->
               IF a <= grants[i].now /\ grants[i].now <= b THEN grants[i].n ELSE 0])

\* capacity plus rate x elapsed time, for a span of ticks, in token parts
Allowance(ticks) == capacity * TokenUnit + ticks * TickSeconds * rate_per_min

\* 0 <= balance <= capacity
BalanceInRange == 0 <= tokens /\ tokens <= capacity * TokenUnit

\* the balance and the tokens granted so far came from the initial fill and
\* from the time elapsed up to the last refill, at rate_per_min / 60 per
\* second: no token is created otherwise and none is granted twice
NoTokenFromNowhere ==
    tokens + GrantedAt(0, MaxClock) * TokenUnit <= Allowance(last) /\ last <= clock

\* every call that returned did so holding the lock, on a balance >= n that
\* the step decremented by exactly n
ReturnsUnderLock ==
    \A i \in 1..Len(grants) :
        /\ grants[i].holder = grants[i].caller
        /\ grants[i].before >= grants[i].n * TokenUnit
        /\ grants[i].after = grants[i].before - grants[i].n * TokenUnit
        /\ grants[i].now <= grants[i].at

\* C13 as stated: under every interleaving of take(n) calls and clock
\* advances the balance stays within [0, capacity], tokens come only from
\* elapsed time at rate_per_min / 60 per second, a take(n) returns only
\* holding the lock on a balance >= n which it decrements by n, and the
\* tokens granted (take returning) within any interval of time never exceed
\* capacity + rate x the length of the interval.
C13_BucketBounds ==
    /\ BalanceInRange
    /\ NoTokenFromNowhere
    /\ ReturnsUnderLock
    /\ \A a \in 0..MaxClock : \A b \in a..MaxClock :
           GrantedAt(a, b) * TokenUnit <= Allowance(b - a)

\* C13 amended: the same, with the rate bound taken over the calls whose
\* clock reading under the lock falls in the interval; counted at the time
\* of the return, the bound holds for the intervals that start at the
\* construction of the bucket.
C13_BucketBoundsByReading ==
    /\ BalanceInRange
    /\ NoTokenFromNowhere
    /\ ReturnsUnderLock
    /\ \A a \in 0..MaxClock : \A b \in a..MaxClock :
           GrantedReadAt(a, b) * TokenUnit <= Allowance(b - a)
    /\ \A b \in 0..MaxClock : GrantedAt(0, b) * TokenUnit <= Allowance(b)

\* C13 witness: a caller read the clock, was held up while time passed and
\* then returned; the other caller then took tokens accrued in that time,
\* so that more than the capacity was granted at one instant
C13_Witness ==
    \E i, j \in 1..Len(grants) :
        /\ i < j
        /\ grants[i].caller # grants[j].caller
        /\ grants[i].now < grants[i].at
        /\ grants[j].at = grants[i].at
        /\ grants[i].n + grants[j].n > capacity

\* fetch_100 is over: it returned a record or raised
Done == fpc \in {"returned", "raised"}

\* the attempt made last has been handled; outcome is what it handed back
JustHandled == calls > 0 /\ Len(attempts) = calls

LastAttempt == attempts[Len(attempts)]

\* HTTP status 429, 500, 502, 503 or 504, or provider error code 0 or 10
TransientOutcome(o) ==
    \/ o.status \in {<<429>>, <<500>>, <<502>>, <<503>>, <<504>>}
    \/ o.data.kind = "error" /\ o.data.code \in {<<0>>, <<10>>}

\* the rounds that ended in a backoff
RetriedRounds == {attempts[i].round : i \in {j \in 1..Len(attempts) : attempts[j].handled = "retry"}}

\* the safety part of C14
FetchBounded ==
    /\ round \in 1..3 /\ mode \in 1..3
    /\ calls <= 9
    /\ Len(attempts) <= calls /\ calls <= Len(attempts) + 1
    \* one token before each request
    /\ requests <= takes /\ takes <= requests + 1 /\ takes <= calls
    /\ fpc = "handle" => (takes = calls /\ requests = calls)
    /\ Done => (takes = calls /\ requests = calls)
    \* modes 1, 2, 3 in order, a new round after a backoff only
    /\ attempts # <<>> => (attempts[1].round = 1 /\ attempts[1].mode = 1)
    /\ \A i \in 1..(Len(attempts) - 1) :
           \/ /\ attempts[i].handled = "continue"
              /\ attempts[i + 1].round = attempts[i].round
              /\ attempts[i + 1].mode = attempts[i].mode + 1
           \/ /\ attempts[i].handled = "retry"
              /\ attempts[i + 1].round = attempts[i].round + 1
              /\ attempts[i + 1].mode = 1
    /\ \A i \in 1..Len(attempts) : attempts[i].round \in 1..3 /\ attempts[i].mode \in 1..3
    \* the next mode only on error code 2, a backoff only on a transient failure
    /\ JustHandled =>
           /\ LastAttempt.handled = "continue" => outcome.data = [kind |-> "error", code |-> <<2>>]
           /\ LastAttempt.handled = "retry" => TransientOutcome(outcome)
    \* 'Exhausted retries' exactly when all three rounds ended in a backoff
    /\ fpc = "returned" => (result.kind = "Exhausted retries" <=> RetriedRounds = 1..3)
    /\ fpc = "raised" => RetriedRounds # 1..3

\* C14: fetch_100 terminates whatever the attempts hand back; it makes at
\* most 3 rounds, tries the modes 1, 2, 3 in order within a round (the next
\* mode only on error code 2), makes at most 9 calls of attempt_call, takes
\* one token before each HTTP request, and returns 'Exhausted retries'
\* exactly when each of the 3 rounds ended in a transient failure.
C14_FetchTerminates == []FetchBounded /\ <>Done

\* C14 witness: 'Exhausted retries' returned after 9 calls, three modes in
\* each of three rounds
C14_Witness ==
    /\ fpc = "returned"
    /\ result.kind = "Exhausted retries"
    /\ calls = 9
    /\ takes = 9
    /\ Len(sleeps) = 6

\* C15: whenever an attempt ends with HTTP status 429, 500, 502, 503 or 504
\* or with provider error code 0 or 10 in a round before the last,
\* fetch_100 does not return for that attempt but sleeps and goes on to a
\* further attempt; the sleeps start at 0.8 s and each is 1.6 times the one
\* before, so they are strictly increasing.
C15_TransientRetried ==
    /\ (JustHandled /\ TransientOutcome(outcome) /\ LastAttempt.round < 3) =>
           /\ ~Done
           /\ LastAttempt.handled = "retry"
           /\ fpc = "loop" => Len(sleeps) >= 2 * LastAttempt.round
    /\ \A i \in 1..(Len(sleeps) - 1) :
           sleeps[i] < sleeps[i + 1] /\ 10 * sleeps[i + 1] = 16 * sleeps[i]
    /\ sleeps # <<>> => 10 * sleeps[1] = 8 * BackoffUnit

\* an error object that is neither the wrong-key code in modes 1-2, nor code
\* 0 or 10, nor accompanied by a transient status; the error object of code
\* -1 that stands for a raised attempt_call is one, its status being None
Unretriable(o, m) ==
    /\ o.data.kind = "error"
    /\ ~(o.data.code = <<2>> /\ m \in {1, 2})
    /\ o.data.code \notin {<<0>>, <<10>>}
    /\ o.status \notin {<<429>>, <<500>>, <<502>>, <<503>>, <<504>>}

\* attempt_call raised
Raised(o) == o.status = <<>> /\ o.data.kind = "error" /\ o.data.code = <<-1>>

\* the sleeps the attempts before the last one account for: two for each
\* backoff (the one of the branch and the one that ends the round), one for
\* a round that ran out of modes
SleepsBefore ==
    LET before == 1..(Len(attempts) - 1)
    IN  2 * Cardinality({i \in before : attempts[i].handled = "retry"})
        + Cardinality({i \in before : attempts[i].handled = "continue" /\ attempts[i].mode = 3})

\* the state after an attempt that cannot be retried
ErrorReturned ==
    (JustHandled /\ Unretriable(outcome, LastAttempt.mode)) =>
        /\ fpc = "returned"
        /\ LastAttempt.handled = "error"
        /\ result = [kind |-> "API error", code |-> outcome.data.code]
        /\ Raised(outcome) => result.code = <<-1>>
        /\ calls = Len(attempts) /\ requests = calls
        /\ Len(sleeps) = SleepsBefore

\* the step that handles an attempt that cannot be retried
ErrorReturnStep ==
    (fpc = "handle" /\ Unretriable(outcome, mode)) =>
        /\ fpc' = "returned"
        /\ sleeps' = sleeps /\ backoff' = backoff
        /\ calls' = calls /\ takes' = takes /\ requests' = requests
        /\ mode' = mode /\ round' = round

\* C22: when attempt_call raises (whatever the status of the response),
\* fetch_100 makes no further attempt, tries no other mode and does not
\* sleep: it returns at once the record of 'API error -1'; likewise an error
\* object of a code other than 2 (in modes 1-2), 0 or 10 with a
\* non-transient status returns an error record after that attempt, and
\* nothing is done after the return.
C22_ErrorReturnsAtOnce ==
    /\ []ErrorReturned
    /\ [][ErrorReturnStep]_vars
    /\ [][fpc # "returned"]_vars

\* C22 witness: in the second round, after a backoff and a wrong-key answer,
\* attempt_call raised in mode 2 and the record of error -1 was returned
C22_Witness ==
    /\ fpc = "returned"
    /\ Raised(outcome)
    /\ result = [kind |-> "API error", code |-> <<-1>>]
    /\ LastAttempt.round = 2 /\ LastAttempt.mode = 2
    /\ Len(sleeps) = 2

\* thread t is inside take(n)
Taking(t, n) == tpc[t] # "idle" /\ req[t] = n

\* no call of take for more than the capacity has returned or is about to,
\* and the balance never reaches what such a call asks for
OversizeNeverGranted ==
    /\ \A i \in 1..Len(grants) : grants[i].n <= capacity
    /\ \A t \in Callers : req[t] > capacity => tpc[t] \notin {"idle", "grant"}
    /\ tokens < (capacity + 1) * TokenUnit

\* C21: take(n) with n greater than the capacity never returns (the balance
\* is capped at the capacity, the test never passes and the caller polls
\* for ever), while for every n up to the capacity take(n) eventually
\* returns under fair scheduling, other threads calling take at the same
\* time, a bounded number of times.
C21_TakeReturnsIffWithinCapacity ==
    /\ []OversizeNeverGranted
    /\ \A t \in Callers : \A n \in TakeSizes :
           n > capacity => (Taking(t, n) ~> (Taking(t, n) /\ tpc[t] = "sleep"))
    /\ \A t \in Callers : \A n \in TakeSizes :
           n <= capacity => (Taking(t, n) ~> tpc[t] = "idle")

\* C21 witness: a call for the whole capacity returned after the other
\* thread had emptied the bucket, while that thread polls for more than the
\* capacity
C21_Witness ==
    \E t, u \in Callers :
        /\ Len(grants) = 2
        /\ grants[1].caller = u /\ grants[1].n = capacity
        /\ grants[2].caller = t /\ grants[2].n = capacity
        /\ tpc[t] = "idle"
        /\ Taking(u, capacity + 1) /\ tpc[u] = "sleep"

====
